---- MODULE Spec2Model ----
(***************************************************************************)
(* Model of the Reolink config flow                                        *)
(* (homeassistant/components/reolink/config_flow.py).                      *)
(*                                                                         *)
(* Several flow instances (ReolinkFlowHandler objects) run against one     *)
(* registry of config entries.  Each `await` of async_step_user is a point *)
(* where another flow may run, so the step is cut into one action per      *)
(* stretch of code between two awaits.                                     *)
(***************************************************************************)
EXTENDS Integers, Sequences, FiniteSets, TLC

VARIABLES
    entries,        \* hass.config_entries: the persisted registrations, in creation order
    pc,             \* per flow: where the flow handler is
    self_host,      \* per flow: self._host
    self_username,  \* per flow: self._username
    self_password,  \* per flow: self._password
    self_reauth,    \* per flow: self._reauth
    user_input,     \* per flow: user_input of the running/last async_step_user
    errors,         \* per flow: local `errors` of async_step_user
    placeholders,   \* per flow: local `placeholders` of async_step_user
    host,           \* per flow: local `host` (the ReolinkHost client)
    raised,         \* per flow: exception raised by host.async_init(), kept for inspection
    existing_entry, \* per flow: local `existing_entry` (index into entries, 0 = None)
    result,         \* per flow: what the last step returned (or that it raised)
    known_at_start, \* per flow: number of registrations when the running/last
                    \* submission of async_step_user started
    calls,          \* per flow: the calls made by the running/last step, in order
    submitted,      \* per flow: user_input as the running/last async_step_user
                    \* received it, before the step changed it
    ever_failed,    \* per flow: has a handshake of this flow failed
    options_flow,   \* per options flow (ReolinkOptionsFlowHandler): its
                    \* config_entry, where it is, its last input and result
    last_options_input \* per registration: the input of the last options
                    \* submission for it

optvars == <<options_flow, last_options_input>>

vars == <<entries, pc, self_host, self_username, self_password, self_reauth,
          user_input, errors, placeholders, host, raised, existing_entry,
          result, known_at_start, calls, submitted, ever_failed,
          options_flow, last_options_input>>

(***************************************************************************)
(* Bounded input domains                                                   *)
(***************************************************************************)
Flows == {"f1", "f2"}
OptionsFlows == {"o1", "o2"}

Hosts == {"h1", "h2"}
Usernames == {"admin", "bob"}
Passwords == {"pw"}
UserPorts == {8080}
UserHttps == {TRUE}
ApiPorts == {80}
UniqueIds == {"u1", "u2"}
NvrNames == {"cam"}
UserLevels == {"guest"}
Messages == {"e1"}

None == "None"
Range(s) == { s[i] : i \in DOMAIN s }
NoInput == [none |-> TRUE]
NoResult == [kind |-> "none"]
EmptyDict == [k \in {} |-> ""]

(***************************************************************************)
(* Constants of the component                                              *)
(***************************************************************************)
CONF_HOST == "host"
CONF_USERNAME == "username"
CONF_PASSWORD == "password"
CONF_PORT == "port"
CONF_USE_HTTPS == "use_https"
CONF_PROTOCOL == "protocol"
DEFAULT_PROTOCOL == "rtsp"
Protocols == {"rtsp", "rtmp", "flv"}
DEFAULT_OPTIONS == (CONF_PROTOCOL :> DEFAULT_PROTOCOL)

(***************************************************************************)
(* Exceptions host.async_init() can raise, and their classes               *)
(***************************************************************************)
ExceptionKinds == {"UserNotAdmin", "CredentialsInvalidError", "ApiError",
                   "ReolinkError", "ReolinkException", "Exception"}

\* the classes an exception of the given (most derived) class is an instance of
Bases(kind) ==
    CASE kind = "UserNotAdmin" -> {"UserNotAdmin", "ReolinkException", "Exception"}
      [] kind = "CredentialsInvalidError" -> {"CredentialsInvalidError", "ReolinkError", "Exception"}
      [] kind = "ApiError" -> {"ApiError", "ReolinkError", "Exception"}
      [] kind = "ReolinkError" -> {"ReolinkError", "Exception"}
      [] kind = "ReolinkException" -> {"ReolinkException", "Exception"}
      [] OTHER -> {"Exception"}

\* variant: the clause for the generic library/integration errors comes first
ExceptClauses_GenericFirst ==
    << [classes |-> {"ReolinkError", "ReolinkException"}, field |-> CONF_HOST,    code |-> "cannot_connect"],
       [classes |-> {"UserNotAdmin"},                    field |-> CONF_USERNAME, code |-> "not_admin"],
       [classes |-> {"CredentialsInvalidError"},         field |-> CONF_HOST,     code |-> "invalid_auth"],
       [classes |-> {"ApiError"},                        field |-> CONF_HOST,     code |-> "api_error"],
       [classes |-> {"Exception"},                       field |-> CONF_HOST,     code |-> "unknown"] >>

\* the except clauses of async_step_user, in source order
ExceptClauses ==
    << [classes |-> {"UserNotAdmin"},                    field |-> CONF_USERNAME, code |-> "not_admin"],
       [classes |-> {"CredentialsInvalidError"},         field |-> CONF_HOST,     code |-> "invalid_auth"],
       [classes |-> {"ApiError"},                        field |-> CONF_HOST,     code |-> "api_error"],
       [classes |-> {"ReolinkError", "ReolinkException"}, field |-> CONF_HOST,    code |-> "cannot_connect"],
       [classes |-> {"Exception"},                       field |-> CONF_HOST,     code |-> "unknown"] >>

\* index of the first except clause that catches the exception
CatchingClause(kind) ==
    CHOOSE i \in DOMAIN ExceptClauses :
        /\ ExceptClauses[i].classes \cap Bases(kind) # {}
        /\ \A j \in 1..(i - 1) : ExceptClauses[j].classes \cap Bases(kind) = {}

\* `errors` after the try statement, for an exception exc = [kind, msg]
ErrorsAfter(exc) ==
    IF exc.kind = None THEN EmptyDict
    ELSE LET c == ExceptClauses[CatchingClause(exc.kind)]
         IN  (c.field :> c.code)

\* `placeholders` after the try statement
PlaceholdersAfter(exc, h) ==
    IF exc.kind = None THEN ("error" :> "")
    ELSE LET code == ExceptClauses[CatchingClause(exc.kind)].code
         IN  CASE code = "not_admin" ->
                    ("error" :> "") @@ ("username" :> h.api.username)
                                    @@ ("userlevel" :> h.api.user_level)
               [] code = "invalid_auth" -> ("error" :> "")
               [] OTHER -> ("error" :> exc.msg)

(***************************************************************************)
(* Forms and results                                                       *)
(***************************************************************************)
\* variant: the defaults of the schema are the literals of __init__
UserForm_FixedDefaults(f, errs, ph) ==
    [kind |-> "form", step_id |-> "user",
     fields |-> {CONF_USERNAME, CONF_PASSWORD, CONF_HOST}
                \cup (IF DOMAIN errs # {} THEN {CONF_PORT, CONF_USE_HTTPS} ELSE {}),
     defaults |-> [username |-> "admin", password |-> None, host |-> None],
     errors |-> errs,
     description_placeholders |-> ph]

\* variant: the schema is never extended
UserForm_NoOptionalFields(f, errs, ph) ==
    [kind |-> "form", step_id |-> "user",
     fields |-> {CONF_USERNAME, CONF_PASSWORD, CONF_HOST},
     defaults |-> [username |-> self_username[f],
                   password |-> self_password[f],
                   host |-> self_host[f]],
     errors |-> errs,
     description_placeholders |-> ph]

\* the schema and async_show_form call at the end of async_step_user
UserForm(f, errs, ph) ==
    [kind |-> "form", step_id |-> "user",
     fields |-> {CONF_USERNAME, CONF_PASSWORD, CONF_HOST}
                \cup (IF DOMAIN errs # {} THEN {CONF_PORT, CONF_USE_HTTPS} ELSE {}),
     defaults |-> [username |-> self_username[f],
                   password |-> self_password[f],
                   host |-> self_host[f]],
     errors |-> errs,
     description_placeholders |-> ph]

ReauthConfirmForm ==
    [kind |-> "form", step_id |-> "reauth_confirm", fields |-> {},
     errors |-> EmptyDict]

AbortResult(reason) == [kind |-> "abort", reason |-> reason]

CreateEntryResult(title, data, options) ==
    [kind |-> "create_entry", title |-> title, data |-> data, options |-> options]

RaisedResult == [kind |-> "raise"]

(***************************************************************************)
(* The inputs a user form accepts                                          *)
(***************************************************************************)
BaseInputs ==
    [username : Usernames, password : Passwords, host : Hosts]

\* the optional port / use_https fields, offered once an attempt has failed
OptionalInputs ==
    { EmptyDict } \cup
    { (CONF_PORT :> p) @@ (CONF_USE_HTTPS :> b) : p \in UserPorts, b \in UserHttps }

InputsFor(form) ==
    { b @@ o : b \in BaseInputs,
               o \in { oo \in OptionalInputs : DOMAIN oo \subseteq form.fields } }

(***************************************************************************)
(* The ReolinkHost client                                                  *)
(***************************************************************************)
NoHost == [status |-> "none"]

\* an options flow that has not been started
NoOptionsFlow == [pc |-> "start", config_entry |-> 0, user_input |-> NoInput,
                  result |-> NoResult]

\* what the device reports through host.api / host.unique_id once queried
Apis(input) ==
    [username : {input.username}, user_level : UserLevels, port : ApiPorts,
     use_https : BOOLEAN, nvr_name : NvrNames, unique_id : UniqueIds]

\* host.api / host.unique_id when the handshake failed: the identity of the
\* device was not obtained
FailedApis(input) ==
    [username : {input.username}, user_level : UserLevels, port : ApiPorts,
     use_https : {FALSE}, nvr_name : {None}, unique_id : {None}]

(***************************************************************************)
(* The registry                                                            *)
(***************************************************************************)
EntryData == [host : Hosts, username : Usernames, password : Passwords,
              port : ApiPorts, use_https : BOOLEAN]

\* index of the first entry with this unique id, 0 if there is none
EntryWithUniqueId(es, uid) ==
    IF \E i \in DOMAIN es : es[i].unique_id = uid
    THEN CHOOSE i \in DOMAIN es :
            /\ es[i].unique_id = uid
            /\ \A j \in 1..(i - 1) : es[j].unique_id # uid
    ELSE 0

InitialEntry ==
    [unique_id |-> "u1", title |-> "cam",
     data |-> [host |-> "h1", username |-> "admin", password |-> "pw",
               port |-> 80, use_https |-> FALSE],
     options |-> DEFAULT_OPTIONS, reloads |-> 0]

(***************************************************************************)
(* Initial state                                                           *)
(***************************************************************************)
Init ==
    /\ entries \in {<<>>, <<InitialEntry>>}
    /\ pc = [f \in Flows |-> "start"]
    /\ self_host = [f \in Flows |-> None]
    /\ self_username = [f \in Flows |-> "admin"]
    /\ self_password = [f \in Flows |-> None]
    /\ self_reauth = [f \in Flows |-> FALSE]
    /\ user_input = [f \in Flows |-> NoInput]
    /\ errors = [f \in Flows |-> EmptyDict]
    /\ placeholders = [f \in Flows |-> ("error" :> "")]
    /\ host = [f \in Flows |-> NoHost]
    /\ raised = [f \in Flows |-> [kind |-> None]]
    /\ existing_entry = [f \in Flows |-> 0]
    /\ result = [f \in Flows |-> NoResult]
    /\ known_at_start = [f \in Flows |-> 0]
    /\ calls = [f \in Flows |-> <<>>]
    /\ submitted = [f \in Flows |-> NoInput]
    /\ ever_failed = [f \in Flows |-> FALSE]
    /\ options_flow = [o \in OptionsFlows |-> NoOptionsFlow]
    /\ last_options_input = <<>>

(***************************************************************************)
(* Registry operations used by the flow                                    *)
(***************************************************************************)
\* hass.config_entries.async_update_entry(entry, data=...): the return value
UpdateChanges(es, i, data) == es[i].data # data

\* hass.config_entries.async_update_entry(entry, data=...): the registry after it
UpdateEntry(es, i, data) == [es EXCEPT ![i].data = data]

\* hass.config_entries.async_reload(entry_id)
ReloadEntry(es, i) == [es EXCEPT ![i].reloads = @ + 1]

\* the registration the host persists for an async_create_entry result
AddEntry(es, uid, res) ==
    Append(es, [unique_id |-> uid, title |-> res.title, data |-> res.data,
                options |-> res.options, reloads |-> 0])

\* _abort_if_unique_id_configured: does it raise AbortFlow("already_configured")
UniqueIdConfigured(es, uid) == \E i \in DOMAIN es : es[i].unique_id = uid

(***************************************************************************)
(* async_step_reauth, async_step_reauth_confirm                            *)
(***************************************************************************)
\* async_step_reauth(entry_data), which ends in async_step_reauth_confirm(None)
Reauth(f) ==
    /\ pc[f] = "start"
    /\ \E i \in DOMAIN entries :
          /\ self_host' = [self_host EXCEPT ![f] = entries[i].data.host]
          /\ self_username' = [self_username EXCEPT ![f] = entries[i].data.username]
          /\ self_password' = [self_password EXCEPT ![f] = entries[i].data.password]
    /\ self_reauth' = [self_reauth EXCEPT ![f] = TRUE]
    /\ result' = [result EXCEPT ![f] = ReauthConfirmForm]
    /\ calls' = [calls EXCEPT ![f] = <<"async_show_form">>]
    /\ pc' = [pc EXCEPT ![f] = "form_reauth_confirm"]
    /\ UNCHANGED <<entries, user_input, errors, placeholders, host, raised,
                   existing_entry, known_at_start, submitted, ever_failed,
                   optvars>>

\* the lines of async_step_user run when user_input is None
ShowUserFormNoInput(f) ==
    /\ errors' = [errors EXCEPT ![f] = EmptyDict]
    /\ placeholders' = [placeholders EXCEPT ![f] = ("error" :> "")]
    /\ user_input' = [user_input EXCEPT ![f] = NoInput]
    /\ result' = [result EXCEPT ![f] = UserForm(f, EmptyDict, ("error" :> ""))]
    /\ calls' = [calls EXCEPT ![f] = <<"async_show_form">>]
    /\ pc' = [pc EXCEPT ![f] = "form_user"]
    /\ UNCHANGED <<entries, self_host, self_username, self_password,
                   self_reauth, host, raised, existing_entry, known_at_start,
                   submitted, ever_failed, optvars>>

\* async_step_reauth_confirm(user_input) with some input, even an empty one
ReauthConfirm(f) ==
    /\ pc[f] = "form_reauth_confirm"
    /\ ShowUserFormNoInput(f)

(***************************************************************************)
(* async_step_user                                                         *)
(***************************************************************************)
\* async_step_user(None): the first step of a flow the user started
UserShow(f) ==
    /\ pc[f] = "start"
    /\ ShowUserFormNoInput(f)

\* variant: errors is kept from the previous call of the step
InitialErrors_Persisting(f) == errors[f]

\* errors = {} at the start of async_step_user
InitialErrors(f) == EmptyDict

\* async_step_user(user_input) up to `await host.async_init()`
UserSubmit(f) ==
    /\ pc[f] = "form_user"
    /\ \E input \in InputsFor(result[f]) :
          /\ user_input' = [user_input EXCEPT ![f] = input]
          /\ submitted' = [submitted EXCEPT ![f] = input]
    /\ errors' = [errors EXCEPT ![f] = InitialErrors(f)]
    /\ placeholders' = [placeholders EXCEPT ![f] = ("error" :> "")]
    /\ host' = [host EXCEPT ![f] = [status |-> "open"]]
    /\ raised' = [raised EXCEPT ![f] = [kind |-> None]]
    /\ existing_entry' = [existing_entry EXCEPT ![f] = 0]
    /\ result' = [result EXCEPT ![f] = NoResult]
    /\ known_at_start' = [known_at_start EXCEPT ![f] = Len(entries)]
    /\ calls' = [calls EXCEPT ![f] = <<"ReolinkHost", "async_init">>]
    /\ pc' = [pc EXCEPT ![f] = "async_init"]
    /\ UNCHANGED <<entries, self_host, self_username, self_password,
                   self_reauth, ever_failed, optvars>>

\* variant: host.stop() in the except clauses instead of in a finally clause
FinallyCalls_OnlyOnFailure(exc) == IF exc.kind = None THEN <<>> ELSE <<"stop">>

\* variant: host.stop() at the end of the try body instead of in a finally clause
FinallyCalls_OnlyOnSuccess(exc) == IF exc.kind = None THEN <<"stop">> ELSE <<>>

\* the finally clause: the calls made after the try body and the except
\* clauses, whatever exception exc = [kind, ...] was raised (kind None: none)
FinallyCalls(exc) == <<"stop">>

\* host.async_init() returns or raises; the except clauses run; up to
\* `await host.stop()` in the finally clause
InitReturn(f) ==
    /\ pc[f] = "async_init"
    /\ \E exc \in {[kind |-> None]} \cup [kind : ExceptionKinds, msg : Messages] :
       \E api \in IF exc.kind = None
                  THEN Apis(user_input[f])
                  ELSE FailedApis(user_input[f]) :
          /\ raised' = [raised EXCEPT ![f] = exc]
          /\ host' = [host EXCEPT ![f] = [status |-> "open", api |-> api]]
          /\ errors' = [errors EXCEPT ![f] = ErrorsAfter(exc) @@ @]
          /\ ever_failed' = [ever_failed EXCEPT ![f] = @ \/ exc.kind # None]
          /\ placeholders' = [placeholders EXCEPT ![f] =
                                 PlaceholdersAfter(exc, host'[f])]
    /\ calls' = [calls EXCEPT ![f] = @ \o FinallyCalls(raised'[f])]
    /\ pc' = [pc EXCEPT ![f] = "stop"]
    /\ UNCHANGED <<entries, self_host, self_username, self_password,
                   self_reauth, user_input, existing_entry, result,
                   known_at_start, submitted, optvars>>

\* variant: the values of host.api only fill in what the user left out
CapturedInput_UserValuesWin(input, api) ==
    input @@ (CONF_PORT :> api.port) @@ (CONF_USE_HTTPS :> api.use_https)

\* user_input after CONF_PORT and CONF_USE_HTTPS are taken from host.api
CapturedInput(input, api) ==
    (CONF_PORT :> api.port) @@ (CONF_USE_HTTPS :> api.use_https) @@ input

\* variant: `if CONF_HOST not in errors`
HasErrors_OnlyHostErrors(f) == CONF_HOST \in DOMAIN errors[f]

\* the negation of the condition of `if not errors`
HasErrors(f) == DOMAIN errors[f] # {}

\* host.stop() returns or raises; then either the form is shown again or
\* the code runs up to `await self.async_set_unique_id(...)`
StopReturn(f) ==
    /\ pc[f] = "stop"
    /\ \E stop_raises \in BOOLEAN :
        IF stop_raises
        THEN /\ host' = [host EXCEPT ![f].status =
                        IF "stop" \in Range(calls[f]) THEN "stop_raised" ELSE @]
             /\ result' = [result EXCEPT ![f] = RaisedResult]
             /\ pc' = [pc EXCEPT ![f] = "raised"]
             /\ UNCHANGED <<user_input, existing_entry, calls>>
        ELSE /\ host' = [host EXCEPT ![f].status =
                        IF "stop" \in Range(calls[f]) THEN "stopped" ELSE @]
             /\ IF HasErrors(f)
                THEN /\ result' = [result EXCEPT ![f] =
                                     UserForm(f, errors[f], placeholders[f])]
                     /\ calls' = [calls EXCEPT ![f] = Append(@, "async_show_form")]
                     /\ pc' = [pc EXCEPT ![f] = "form_user"]
                     /\ UNCHANGED <<user_input, existing_entry>>
                ELSE /\ user_input' = [user_input EXCEPT ![f] =
                                         CapturedInput(@, host[f].api)]
                     /\ existing_entry' = [existing_entry EXCEPT ![f] =
                            EntryWithUniqueId(entries, host[f].api.unique_id)]
                     /\ calls' = [calls EXCEPT ![f] = Append(@, "async_set_unique_id")]
                     /\ pc' = [pc EXCEPT ![f] = "async_set_unique_id"]
                     /\ UNCHANGED result
    /\ UNCHANGED <<entries, self_host, self_username, self_password,
                   self_reauth, errors, placeholders, raised, known_at_start,
                   submitted, ever_failed, optvars>>

\* variant: `if existing_entry`
TakesReauthBranch_AnyFlow(f) == existing_entry[f] # 0

\* variant: `if existing_entry and not self._reauth`
TakesReauthBranch_Negated(f) == existing_entry[f] # 0 /\ ~self_reauth[f]

\* the condition of `if existing_entry and self._reauth`
TakesReauthBranch(f) == existing_entry[f] # 0 /\ self_reauth[f]

\* variant: the reload is not gated by the value async_update_entry returned
ReloadsAfterUpdate_Always(changed) == TRUE

\* `if async_update_entry(...): await async_reload(...)`: is the reload
\* called, given what async_update_entry returned
ReloadsAfterUpdate(changed) == changed

\* variant: the reauth branch falls through to the duplicate abort
ReauthOutcome_AlreadyConfigured == AbortResult("already_configured")

\* return self.async_abort(reason="reauth_successful")
ReauthOutcome == AbortResult("reauth_successful")

\* variant: a reauth flow never gets past the duplicate check
DuplicateCheck_ReauthNeverCreates(f) ==
    self_reauth[f] \/ UniqueIdConfigured(entries, host[f].api.unique_id)

\* variant: `if existing_entry: abort`, the result of the earlier lookup
DuplicateCheck_StaleLookup(f) == existing_entry[f] # 0

\* self._abort_if_unique_id_configured(updates=user_input): does it abort
\* the flow; the unique id is the one async_set_unique_id was given
DuplicateCheck(f) == UniqueIdConfigured(entries, host[f].api.unique_id)

\* variant: the entry is titled after the host the user typed
NewEntryResult_TitleIsHost(f) ==
    CreateEntryResult(user_input[f].host, user_input[f], DEFAULT_OPTIONS)

\* return self.async_create_entry(title=..., data=..., options=...)
NewEntryResult(f) ==
    CreateEntryResult(host[f].api.nvr_name, user_input[f], DEFAULT_OPTIONS)

\* from the return of async_set_unique_id to the next await or the return
Resolve(f) ==
    /\ pc[f] = "async_set_unique_id"
    /\ IF TakesReauthBranch(f)
       THEN LET e == existing_entry[f]
                changed == UpdateChanges(entries, e, user_input[f])
                updated == UpdateEntry(entries, e, user_input[f])
            IN  IF ReloadsAfterUpdate(changed)
                THEN /\ entries' = ReloadEntry(updated, e)
                     /\ calls' = [calls EXCEPT ![f] =
                                    @ \o <<"async_update_entry", "async_reload">>]
                     /\ pc' = [pc EXCEPT ![f] = "async_reload"]
                     /\ UNCHANGED result
                ELSE /\ entries' = updated
                     /\ calls' = [calls EXCEPT ![f] =
                                    @ \o <<"async_update_entry", "async_abort">>]
                     /\ result' = [result EXCEPT ![f] = ReauthOutcome]
                     /\ pc' = [pc EXCEPT ![f] = "done"]
       ELSE IF DuplicateCheck(f)
            THEN /\ calls' = [calls EXCEPT ![f] =
                                Append(@, "_abort_if_unique_id_configured")]
                 /\ result' = [result EXCEPT ![f] = AbortResult("already_configured")]
                 /\ pc' = [pc EXCEPT ![f] = "done"]
                 /\ UNCHANGED entries
            ELSE /\ entries' = AddEntry(entries, host[f].api.unique_id,
                                        NewEntryResult(f))
                 /\ calls' = [calls EXCEPT ![f] = @ \o
                        <<"_abort_if_unique_id_configured", "async_create_entry">>]
                 /\ result' = [result EXCEPT ![f] = NewEntryResult(f)]
                 /\ pc' = [pc EXCEPT ![f] = "done"]
    /\ UNCHANGED <<self_host, self_username, self_password, self_reauth,
                   user_input, errors, placeholders, host, raised,
                   existing_entry, known_at_start, submitted, ever_failed,
                   optvars>>

\* async_reload returns; return self.async_abort(reason="reauth_successful")
ReloadReturn(f) ==
    /\ pc[f] = "async_reload"
    /\ calls' = [calls EXCEPT ![f] = Append(@, "async_abort")]
    /\ result' = [result EXCEPT ![f] = ReauthOutcome]
    /\ pc' = [pc EXCEPT ![f] = "done"]
    /\ UNCHANGED <<entries, self_host, self_username, self_password,
                   self_reauth, user_input, errors, placeholders, host, raised,
                   existing_entry, known_at_start, submitted, ever_failed,
                   optvars>>

Next ==
    \E f \in Flows :
        \/ UserShow(f)
        \/ Reauth(f)
        \/ ReauthConfirm(f)
        \/ UserSubmit(f)
        \/ InitReturn(f)
        \/ StopReturn(f)
        \/ Resolve(f)
        \/ ReloadReturn(f)

Spec == Init /\ [][Next]_vars

(***************************************************************************)
(* ReolinkOptionsFlowHandler                                               *)
(***************************************************************************)
\* the inputs the init form accepts: protocol is required, vol.In([...])
OptionsInputs == [protocol : Protocols]

\* the form of async_step_init, for the handler's config entry
OptionsForm(es, i) ==
    [kind |-> "form", step_id |-> "init", fields |-> {CONF_PROTOCOL},
     allowed |-> Protocols,
     defaults |-> (CONF_PROTOCOL :> es[i].options[CONF_PROTOCOL])]

\* variant: the default options are stored whatever was submitted
OptionsEntryResult_Defaults(o, input) ==
    [kind |-> "create_entry", data |-> DEFAULT_OPTIONS]

\* variant: a submission equal to the stored options aborts the flow
OptionsEntryResult_AbortIfSame(o, input) ==
    IF entries[options_flow[o].config_entry].options = input
    THEN AbortResult("no_change")
    ELSE [kind |-> "create_entry", data |-> input]

\* return self.async_create_entry(data=user_input)
OptionsEntryResult(o, input) == [kind |-> "create_entry", data |-> input]

\* what the host persists for the result of an options flow
PersistOptions(es, i, res) ==
    IF res.kind = "create_entry" THEN [es EXCEPT ![i].options = res.data] ELSE es

\* async_get_options_flow(config_entry), then async_step_init(None)
OptionsInitShow(o) ==
    /\ options_flow[o].pc = "start"
    /\ \E i \in DOMAIN entries :
          options_flow' = [options_flow EXCEPT ![o] =
              [pc |-> "form_init", config_entry |-> i, user_input |-> NoInput,
               result |-> OptionsForm(entries, i)]]
    /\ UNCHANGED <<entries, pc, self_host, self_username, self_password,
                   self_reauth, user_input, errors, placeholders, host, raised,
                   existing_entry, result, known_at_start, calls, submitted,
                   ever_failed, last_options_input>>

\* async_step_init(user_input) with the input of the form
OptionsInitSubmit(o) ==
    /\ options_flow[o].pc = "form_init"
    /\ \E input \in OptionsInputs :
          LET i == options_flow[o].config_entry
              res == OptionsEntryResult(o, input)
          IN  /\ options_flow' = [options_flow EXCEPT ![o] =
                    [pc |-> "done", config_entry |-> i, user_input |-> input,
                     result |-> res]]
              /\ entries' = PersistOptions(entries, i, res)
              /\ last_options_input' = [last_options_input EXCEPT ![i] = input]
    /\ UNCHANGED <<pc, self_host, self_username, self_password,
                   self_reauth, user_input, errors, placeholders, host, raised,
                   existing_entry, result, known_at_start, calls, submitted,
                   ever_failed>>

\* a second registration, of another device
SecondEntry ==
    [unique_id |-> "u2", title |-> "cam",
     data |-> [host |-> "h2", username |-> "bob", password |-> "pw",
               port |-> 80, use_https |-> TRUE],
     options |-> DEFAULT_OPTIONS, reloads |-> 0]

\* registries of one or two registrations whose options were set before
OptionsRegistries ==
    { << [InitialEntry EXCEPT !.options = p] >> : p \in OptionsInputs } \cup
    { << [InitialEntry EXCEPT !.options = p], [SecondEntry EXCEPT !.options = q] >> :
          p \in OptionsInputs, q \in OptionsInputs }

OptionsInit ==
    /\ entries \in OptionsRegistries
    /\ pc = [f \in Flows |-> "start"]
    /\ self_host = [f \in Flows |-> None]
    /\ self_username = [f \in Flows |-> "admin"]
    /\ self_password = [f \in Flows |-> None]
    /\ self_reauth = [f \in Flows |-> FALSE]
    /\ user_input = [f \in Flows |-> NoInput]
    /\ errors = [f \in Flows |-> EmptyDict]
    /\ placeholders = [f \in Flows |-> ("error" :> "")]
    /\ host = [f \in Flows |-> NoHost]
    /\ raised = [f \in Flows |-> [kind |-> None]]
    /\ existing_entry = [f \in Flows |-> 0]
    /\ result = [f \in Flows |-> NoResult]
    /\ known_at_start = [f \in Flows |-> 0]
    /\ calls = [f \in Flows |-> <<>>]
    /\ submitted = [f \in Flows |-> NoInput]
    /\ ever_failed = [f \in Flows |-> FALSE]
    /\ options_flow = [o \in OptionsFlows |-> NoOptionsFlow]
    /\ last_options_input = [i \in DOMAIN entries |-> NoInput]

OptionsNext ==
    \E o \in OptionsFlows :
        \/ OptionsInitShow(o)
        \/ OptionsInitSubmit(o)

SpecOptions == OptionsInit /\ [][OptionsNext]_vars

(***************************************************************************)
(* Properties                                                              *)
(***************************************************************************)
\* flow f takes a step
Acts(f) == pc'[f] # pc[f]

\* the last async_step_user(user_input) of flow f has returned or raised
StepOver(f) == pc[f] \in {"form_user", "done", "raised"} /\ user_input[f] # NoInput

\* flow f is at the duplicate resolution (async_set_unique_id has looked up
\* the registry) and now runs it
Resolves(f) == pc[f] = "async_set_unique_id" /\ Acts(f)

Registered(uid) == \E i \in DOMAIN entries : entries[i].unique_id = uid

\* C1: every submission whose handshake is rejected and whose step returns
\* gives the user form with a non-empty errors mapping and with the submitted
\* username, password and host as the defaults of the form.
C1_RejectedInputKeptAsDefaults ==
    \A f \in Flows :
        (pc[f] = "form_user" /\ raised[f].kind # None) =>
            /\ result[f].kind = "form"
            /\ result[f].step_id = "user"
            /\ DOMAIN result[f].errors # {}
            /\ result[f].defaults.username = user_input[f].username
            /\ result[f].defaults.password = user_input[f].password
            /\ result[f].defaults.host = user_input[f].host

C3_ReauthOverwrites ==
    [][\A f \in Flows :
         /\ (Resolves(f) /\ self_reauth[f] /\ existing_entry[f] # 0) =>
               /\ entries'[existing_entry[f]].data = user_input[f]
               /\ Len(entries') = Len(entries)
               /\ pc'[f] \in {"done", "async_reload"}
               /\ pc'[f] = "done" =>
                     result'[f] = [kind |-> "abort", reason |-> "reauth_successful"]
               /\ result'[f].kind # "create_entry"
         /\ (pc[f] = "async_reload" /\ Acts(f)) =>
               /\ pc'[f] = "done"
               /\ result'[f] = [kind |-> "abort", reason |-> "reauth_successful"]
               /\ entries' = entries]_vars

C3_Witness ==
    \E f \in Flows :
        /\ pc[f] = "done"
        /\ self_reauth[f]
        /\ existing_entry[f] # 0
        /\ result[f] = [kind |-> "abort", reason |-> "reauth_successful"]
        /\ entries[existing_entry[f]].data = user_input[f]
        /\ user_input[f].username # "admin"

\* C4: when a flow resolves a unique id that no registration has, the step
\* returns one create_entry result whose title is the client's nvr_name,
\* whose data is the captured input and whose options give the default
\* protocol; one registration with that content is added.
C4_NovelCreates ==
    [][\A f \in Flows :
         (Resolves(f) /\ ~Registered(host[f].api.unique_id)) =>
            /\ pc'[f] = "done"
            /\ result'[f].kind = "create_entry"
            /\ result'[f].title = host[f].api.nvr_name
            /\ result'[f].data = user_input[f]
            /\ result'[f].options[CONF_PROTOCOL] = DEFAULT_PROTOCOL
            /\ Cardinality({i \in DOMAIN calls'[f] :
                                calls'[f][i] = "async_create_entry"}) = 1
            /\ Len(entries') = Len(entries) + 1
            /\ SubSeq(entries', 1, Len(entries)) = entries
            /\ entries'[Len(entries')].unique_id = host[f].api.unique_id
            /\ entries'[Len(entries')].title = result'[f].title
            /\ entries'[Len(entries')].data = result'[f].data
            /\ entries'[Len(entries')].options = result'[f].options]_vars

C4_Witness ==
    \E f \in Flows :
        /\ pc[f] = "done"
        /\ result[f].kind = "create_entry"
        /\ result[f].title = host[f].api.nvr_name
        /\ \E i \in DOMAIN entries :
              /\ entries[i].unique_id = host[f].api.unique_id
              /\ entries[i].data = result[f].data

C5_Created(f) == "async_create_entry" \in Range(calls[f])
C5_Updated(f) == "async_update_entry" \in Range(calls[f])

\* C5: a step that got through the handshake ends in exactly one of: a
\* created registration (create_entry), an updated registration
\* (abort reauth_successful), a duplicate abort (abort already_configured);
\* no step both creates a registration and updates one.
C5_OneOutcome ==
    \A f \in Flows :
        /\ ~(C5_Created(f) /\ C5_Updated(f))
        /\ pc[f] = "done" =>
              \/ /\ result[f].kind = "create_entry"
                 /\ C5_Created(f) /\ ~C5_Updated(f)
              \/ /\ result[f] = [kind |-> "abort", reason |-> "reauth_successful"]
                 /\ C5_Updated(f) /\ ~C5_Created(f)
              \/ /\ result[f] = [kind |-> "abort", reason |-> "already_configured"]
                 /\ ~C5_Updated(f) /\ ~C5_Created(f)

C5_Witness ==
    \E f, g \in Flows :
        /\ pc[f] = "done" /\ C5_Updated(f)
        /\ pc[g] = "done" /\ C5_Created(g)

\* C6: the registry never holds two registrations with one unique id; and a
\* flow whose unique id was not registered when its submission started but
\* is registered when it resolves ends in an abort without adding an entry.
C6_OnePerUniqueId ==
    /\ [](\A i, j \in DOMAIN entries :
             entries[i].unique_id = entries[j].unique_id => i = j)
    /\ [][\A f \in Flows :
            (/\ Resolves(f)
             /\ \A i \in 1..known_at_start[f] :
                   entries[i].unique_id # host[f].api.unique_id
             /\ Registered(host[f].api.unique_id)) =>
                /\ Len(entries') = Len(entries)
                /\ pc'[f] = "done" => result'[f].kind = "abort"
                /\ result'[f].kind # "create_entry"]_vars

C6_Witness ==
    \E f \in Flows :
        /\ pc[f] = "done"
        /\ result[f].kind = "abort"
        /\ \A i \in 1..known_at_start[f] :
              entries[i].unique_id # host[f].api.unique_id
        /\ \E i \in DOMAIN entries :
              i > known_at_start[f] /\ entries[i].unique_id = host[f].api.unique_id

\* C7: once a step that made a ReolinkHost has returned or raised, host.stop()
\* has been called, and it was called before the call that ends the step.
C7_ClientReleased ==
    \A f \in Flows :
        "ReolinkHost" \in Range(calls[f]) =>
            /\ pc[f] \in {"form_user", "done", "raised", "async_set_unique_id",
                          "async_reload"} =>
                  /\ "stop" \in Range(calls[f])
                  /\ host[f].status \in {"stopped", "stop_raised"}
            /\ \A i \in DOMAIN calls[f] :
                  calls[f][i] \in {"async_show_form", "async_abort",
                                   "async_create_entry",
                                   "_abort_if_unique_id_configured"} =>
                     \E j \in 1..(i - 1) : calls[f][j] = "stop"

C7_Witness ==
    \E f, g \in Flows :
        /\ pc[f] = "form_user" /\ raised[f].kind = "Exception"
        /\ "stop" \in Range(calls[f])
        /\ pc[g] = "done" /\ "stop" \in Range(calls[g])

\* C8: whatever fails during a step (the handshake, or the release of the
\* client), the step returns the user form.
C8_NoFaultLeavesTheStep ==
    \A f \in Flows :
        (StepOver(f) /\ (raised[f].kind # None \/ host[f].status = "stop_raised")) =>
            /\ result[f].kind = "form"
            /\ result[f].step_id = "user"

\* the error entry the taxonomy gives for an exception class
C9_Expected(kind) ==
    CASE kind = "UserNotAdmin" -> ("username" :> "not_admin")
      [] kind = "CredentialsInvalidError" -> ("host" :> "invalid_auth")
      [] kind = "ApiError" -> ("host" :> "api_error")
      [] kind \in {"ReolinkError", "ReolinkException"} -> ("host" :> "cannot_connect")
      [] OTHER -> ("host" :> "unknown")

\* C9: after a failed handshake `errors` holds exactly the one entry of the
\* taxonomy for the most specific class of the exception; the placeholders
\* hold the observed username and userlevel for not_admin, and the raw
\* message under `error` for api_error, cannot_connect and unknown; the form
\* shown carries both.
C9_Classification ==
    \A f \in Flows :
        (raised[f].kind # None /\ pc[f] \in {"stop", "form_user", "raised"}) =>
            /\ errors[f] = C9_Expected(raised[f].kind)
            /\ Cardinality(DOMAIN errors[f]) = 1
            /\ placeholders[f] =
                 CASE raised[f].kind = "UserNotAdmin" ->
                        [error |-> "", username |-> host[f].api.username,
                         userlevel |-> host[f].api.user_level]
                   [] raised[f].kind = "CredentialsInvalidError" -> [error |-> ""]
                   [] OTHER -> [error |-> raised[f].msg]
            /\ pc[f] = "form_user" =>
                  /\ result[f].errors = errors[f]
                  /\ result[f].description_placeholders = placeholders[f]

C9_Witness ==
    \E f, g \in Flows :
        /\ pc[f] = "form_user" /\ raised[f].kind = "CredentialsInvalidError"
        /\ result[f].errors = ("host" :> "invalid_auth")
        /\ pc[g] = "form_user" /\ raised[g].kind = "UserNotAdmin"
        /\ result[g].description_placeholders["userlevel"] \in UserLevels

\* C10: on the reauth update path the reload is triggered exactly when the
\* submitted data differs from the stored data, and only after the update;
\* no other step of a flow reloads a registration.
C10_ReloadIffChanged ==
    [][\A f \in Flows :
         /\ (Resolves(f) /\ self_reauth[f] /\ existing_entry[f] # 0) =>
               LET e == existing_entry[f]
                   changed == entries[e].data # user_input[f]
               IN  /\ entries'[e].reloads =
                         entries[e].reloads + (IF changed THEN 1 ELSE 0)
                   /\ ("async_reload" \in Range(calls'[f])) <=> changed
                   /\ \A i \in DOMAIN calls'[f] :
                         calls'[f][i] = "async_reload" =>
                            \E j \in 1..(i - 1) : calls'[f][j] = "async_update_entry"
         /\ (Acts(f) /\ ~(Resolves(f) /\ self_reauth[f] /\ existing_entry[f] # 0)) =>
               \A i \in DOMAIN entries : entries'[i].reloads = entries[i].reloads]_vars

C10_Witness ==
    \E f, g \in Flows :
        /\ pc[f] = "done" /\ C5_Updated(f)
        /\ "async_reload" \notin Range(calls[f])
        /\ pc[g] = "done" /\ C5_Updated(g)
        /\ "async_reload" \in Range(calls[g])

\* the calls of a step that read or write the registry
RegistryCalls == {"async_set_unique_id", "async_update_entry", "async_reload",
                  "_abort_if_unique_id_configured", "async_create_entry"}

\* C11: once a submission is over, either the flow is done, after a
\* handshake that succeeded, with a create_entry or abort result, or the flow
\* is where it was (the user form is shown again, or the step raised) and the
\* submission made no call to the registry; no step of a flow other than the
\* duplicate resolution changes the registry.
C11_NoPartialSuccess ==
    /\ [](\A f \in Flows :
            StepOver(f) =>
               \/ /\ pc[f] = "done"
                  /\ raised[f].kind = None
                  /\ result[f].kind \in {"create_entry", "abort"}
               \/ /\ pc[f] \in {"form_user", "raised"}
                  /\ Range(calls[f]) \cap RegistryCalls = {}
                  /\ pc[f] = "form_user" =>
                        (result[f].kind = "form" /\ result[f].step_id = "user"))
    /\ [][\A f \in Flows :
            (Acts(f) /\ ~Resolves(f)) => entries' = entries]_vars

C11_Witness ==
    \E f, g \in Flows :
        /\ pc[f] = "form_user" /\ raised[f].kind = "UserNotAdmin"
        /\ Range(calls[f]) \cap RegistryCalls = {}
        /\ pc[g] = "done" /\ result[g].kind = "create_entry"

\* C12: async_step_reauth sets host, username and password of the flow to
\* the data of a registration, sets the reauth flag and shows the
\* reauth_confirm form, which has no fields; async_step_reauth_confirm with
\* input shows the user form with those values as defaults, makes no client
\* and changes neither the flow's fields nor the registry.
C12_ReauthSeedsUserForm ==
    [][\A f \in Flows :
         /\ (pc[f] = "start" /\ pc'[f] = "form_reauth_confirm") =>
               /\ \E i \in DOMAIN entries :
                     /\ self_host'[f] = entries[i].data.host
                     /\ self_username'[f] = entries[i].data.username
                     /\ self_password'[f] = entries[i].data.password
               /\ self_reauth'[f]
               /\ result'[f].kind = "form"
               /\ result'[f].step_id = "reauth_confirm"
               /\ result'[f].fields = {}
               /\ entries' = entries
               /\ host'[f] = host[f]
         /\ (pc[f] = "form_reauth_confirm" /\ Acts(f)) =>
               /\ pc'[f] = "form_user"
               /\ result'[f].kind = "form"
               /\ result'[f].step_id = "user"
               /\ result'[f].fields = {"username", "password", "host"}
               /\ result'[f].defaults = [username |-> self_username[f],
                                        password |-> self_password[f],
                                        host |-> self_host[f]]
               /\ DOMAIN result'[f].errors = {}
               /\ self_host'[f] = self_host[f]
               /\ self_username'[f] = self_username[f]
               /\ self_password'[f] = self_password[f]
               /\ self_reauth'[f]
               /\ host'[f] = host[f]
               /\ "ReolinkHost" \notin Range(calls'[f])
               /\ "async_init" \notin Range(calls'[f])
               /\ entries' = entries]_vars

C12_Witness ==
    \E f \in Flows :
        /\ pc[f] = "form_user"
        /\ self_reauth[f]
        /\ user_input[f] = NoInput
        /\ result[f].defaults.username = "bob"
        /\ result[f].defaults.password = "pw"
        /\ result[f].defaults.host \in Hosts
        /\ host[f] = NoHost

\* options flow o takes the step that shows the form
OptionsShows(o) == options_flow[o].pc = "start" /\ options_flow'[o].pc # "start"

\* options flow o takes the step that receives the input
OptionsSubmits(o) ==
    options_flow[o].pc = "form_init" /\ options_flow'[o].pc # "form_init"

\* C13: async_step_init with input stores exactly the submitted mapping as
\* the options of the handler's registration and ends with create_entry,
\* whatever the value, leaving every registration's data and every other
\* registration alone; without input it shows the init form whose protocol
\* default is the stored value and changes nothing.
C13_OptionsStoredVerbatim ==
    [][\A o \in OptionsFlows :
         /\ OptionsSubmits(o) =>
               LET i == options_flow[o].config_entry
                   input == options_flow'[o].user_input
               IN  /\ input \in OptionsInputs
                   /\ options_flow'[o].pc = "done"
                   /\ options_flow'[o].result.kind = "create_entry"
                   /\ options_flow'[o].result.data = input
                   /\ entries'[i].options = input
                   /\ DOMAIN entries' = DOMAIN entries
                   /\ \A j \in DOMAIN entries :
                         /\ entries'[j].data = entries[j].data
                         /\ entries'[j].unique_id = entries[j].unique_id
                         /\ j # i => entries'[j] = entries[j]
         /\ OptionsShows(o) =>
               LET i == options_flow'[o].config_entry
               IN  /\ options_flow'[o].result.kind = "form"
                   /\ options_flow'[o].result.step_id = "init"
                   /\ options_flow'[o].result.defaults[CONF_PROTOCOL] =
                         entries[i].options[CONF_PROTOCOL]
                   /\ entries' = entries]_vars

C13_Witness ==
    \E o, q \in OptionsFlows :
        /\ options_flow[o].pc = "done"
        /\ options_flow[o].user_input = [protocol |-> "rtmp"]
        /\ entries[options_flow[o].config_entry].options = [protocol |-> "rtmp"]
        /\ options_flow[q].pc = "form_init"
        /\ options_flow[q].config_entry = options_flow[o].config_entry
        /\ options_flow[q].result.defaults = [protocol |-> "rtmp"]

\* C14: an options submission that repeats the input of the previous
\* submission for the same registration leaves the stored options as the
\* first left them and ends with create_entry, as the first did.
C14_OptionsIdempotent ==
    [][\A o \in OptionsFlows :
         (/\ OptionsSubmits(o)
          /\ last_options_input[options_flow[o].config_entry] =
                options_flow'[o].user_input) =>
             /\ entries' = entries
             /\ options_flow'[o].result.kind = "create_entry"
             /\ options_flow'[o].result.data = options_flow'[o].user_input]_vars

C14_Witness ==
    \E o, q \in OptionsFlows :
        /\ o # q
        /\ options_flow[o].pc = "done"
        /\ options_flow[q].pc = "done"
        /\ options_flow[o].config_entry = options_flow[q].config_entry
        /\ options_flow[o].user_input = options_flow[q].user_input
        /\ options_flow[o].result.kind = "create_entry"
        /\ options_flow[q].result.kind = "create_entry"
        /\ entries[options_flow[o].config_entry].options = options_flow[o].user_input

\* C15: the data of a create_entry result, and the data a reauth update
\* writes, have port and use_https as host.api reports them, whatever the
\* user submitted for them, and the submitted username, password and host.
C15_ClientPortWins ==
    [][\A f \in Flows :
         Resolves(f) =>
            /\ result'[f].kind = "create_entry" =>
                  /\ result'[f].data.port = host[f].api.port
                  /\ result'[f].data.use_https = host[f].api.use_https
                  /\ \A k \in {"username", "password", "host"} :
                        result'[f].data[k] = submitted[f][k]
                  /\ DOMAIN result'[f].data =
                        {"username", "password", "host", "port", "use_https"}
            /\ "async_update_entry" \in Range(calls'[f]) =>
                  /\ entries'[existing_entry[f]].data.port = host[f].api.port
                  /\ entries'[existing_entry[f]].data.use_https =
                        host[f].api.use_https
                  /\ \A k \in {"username", "password", "host"} :
                        entries'[existing_entry[f]].data[k] = submitted[f][k]]_vars

C15_Witness ==
    \E f, g \in Flows :
        /\ pc[f] = "done" /\ result[f].kind = "create_entry"
        /\ "port" \in DOMAIN submitted[f]
        /\ submitted[f].port # result[f].data.port
        /\ submitted[f].use_https # result[f].data.use_https
        /\ pc[g] = "done" /\ "async_update_entry" \in Range(calls[g])
        /\ "port" \in DOMAIN submitted[g]
        /\ submitted[g].port # user_input[g].port

\* C16: the user form has the optional port and use_https fields when a
\* handshake of this flow has failed, and only username, password and host
\* otherwise; the username default of a flow that is not a reauth and has
\* had no failure is "admin".
C16_OptionalFieldsAfterFailure ==
    \A f \in Flows :
        pc[f] = "form_user" =>
            /\ result[f].kind = "form"
            /\ result[f].step_id = "user"
            /\ ever_failed[f] =>
                  result[f].fields =
                      {"username", "password", "host", "port", "use_https"}
            /\ ~ever_failed[f] =>
                  /\ result[f].fields = {"username", "password", "host"}
                  /\ ~self_reauth[f] => result[f].defaults.username = "admin"

C16_Witness ==
    \E f, g \in Flows :
        /\ pc[f] = "form_user" /\ ever_failed[f]
        /\ "port" \in result[f].fields
        /\ pc[g] = "form_user" /\ ~ever_failed[g] /\ ~self_reauth[g]
        /\ "port" \notin result[g].fields

\* C17: a reauth flow that resolves a unique id no registration has creates
\* a registration and leaves every existing one as it was (data, options,
\* reloads); a step ends with abort(reauth_successful) only after it updated
\* the registration found for the unique id of the handshake.
C17_ReauthNovelCreates ==
    [][\A f \in Flows :
         /\ (Resolves(f) /\ self_reauth[f] /\ ~Registered(host[f].api.unique_id)) =>
               /\ pc'[f] = "done"
               /\ result'[f].kind = "create_entry"
               /\ Len(entries') = Len(entries) + 1
               /\ SubSeq(entries', 1, Len(entries)) = entries
               /\ entries'[Len(entries')].unique_id = host[f].api.unique_id
         /\ (Acts(f) /\ result'[f] = [kind |-> "abort", reason |-> "reauth_successful"]) =>
               /\ "async_update_entry" \in Range(calls'[f])
               /\ existing_entry[f] # 0
               /\ entries[existing_entry[f]].unique_id = host[f].api.unique_id]_vars

C17_Witness ==
    \E f \in Flows :
        /\ pc[f] = "done"
        /\ self_reauth[f]
        /\ result[f].kind = "create_entry"
        /\ Len(entries) >= 2
        /\ entries[1] = InitialEntry
        /\ entries[Len(entries)].unique_id = host[f].api.unique_id

\* C18: a step calls the registry only after host.stop() has returned and
\* only after a handshake that did not fail; the registry changes only in
\* steps of flows whose client is stopped.
C18_StoppedBeforeRegistry ==
    /\ [](\A f \in Flows :
            /\ \A i \in DOMAIN calls[f] :
                  calls[f][i] \in RegistryCalls =>
                     /\ \E j \in 1..(i - 1) : calls[f][j] = "stop"
                     /\ host[f].status = "stopped"
                     /\ raised[f].kind = None
            /\ pc[f] \in {"async_set_unique_id", "async_reload"} =>
                  host[f].status = "stopped")
    /\ [][\A f \in Flows :
            (Acts(f) /\ entries' # entries) =>
                /\ host[f].status = "stopped"
                /\ raised[f].kind = None]_vars

C18_Witness ==
    \E f, g \in Flows :
        /\ pc[f] = "done" /\ "async_create_entry" \in Range(calls[f])
        /\ host[f].status = "stopped"
        /\ pc[g] = "form_user" /\ raised[g].kind # None
        /\ host[g].status = "stopped"
        /\ Range(calls[g]) \cap RegistryCalls = {}

\* C19: when the handshake of a submission succeeded and the client was
\* released, the step goes on to the duplicate resolution and ends with
\* create_entry or abort, never with a form, whatever failed before; a flow
\* gets a create_entry or abort result only from a submitted user step whose
\* handshake succeeded, and the steps reauth, reauth_confirm and user
\* without input return forms.
C19_ErrorsDoNotPersist ==
    [][\A f \in Flows :
         /\ (pc[f] = "stop" /\ raised[f].kind = None /\ Acts(f)
                /\ pc'[f] # "raised") =>
               /\ pc'[f] = "async_set_unique_id"
               /\ result'[f].kind # "form"
         /\ Resolves(f) =>
               /\ pc'[f] \in {"done", "async_reload"}
               /\ result'[f].kind # "form"
         /\ (Acts(f) /\ pc'[f] = "done") =>
               /\ result'[f].kind \in {"create_entry", "abort"}
               /\ pc[f] \in {"async_set_unique_id", "async_reload"}
               /\ submitted[f] # NoInput
               /\ raised[f].kind = None
         /\ (Acts(f) /\ pc[f] \in {"start", "form_reauth_confirm"}) =>
               result'[f].kind = "form"]_vars

C19_Witness ==
    \E f \in Flows :
        /\ ever_failed[f]
        /\ pc[f] = "done"
        /\ result[f].kind \in {"create_entry", "abort"}

====
